---------------------------- MODULE Spec2Model ----------------------------
(***************************************************************************)
(* Model of webhook_relay.py: the alert formatter (extract_useful_info,   *)
(* format_alert_message), the SMS length budgeting inlined in              *)
(* handle_webhook, and the handle_webhook request handler itself.          *)
(*                                                                         *)
(* A Python str is a sequence of code points.  Each code point is a TLA+   *)
(* string: an ASCII character stands for itself, and the glyphs are        *)
(*   "FIRE" U+1F525, "CHECK" U+2705, "PIN" U+1F4CD,                        *)
(*   "WARN" U+26A0 followed by "VS16" U+FE0F (the warning sign is two      *)
(*   code points in the source file).                                      *)
(* A Python dict is a sequence of <<key, value>> pairs in insertion order. *)
(***************************************************************************)
EXTENDS Integers, Sequences, FiniteSets, TLC

(***************************************************************************)
(* Python str primitives used by the source.                               *)
(***************************************************************************)
Max(a, b) == IF a >= b THEN a ELSE b

Min(a, b) == IF a <= b THEN a ELSE b

\* A slice bound as Python normalises it: negative counts from the end,
\* and the result is clamped to 0..n.
PyIndex(n, i) == IF i < 0 THEN Max(n + i, 0) ELSE Min(i, n)

\* s[lo:hi]
PySlice(s, lo, hi) ==
    LET a == PyIndex(Len(s), lo)
        b == PyIndex(Len(s), hi)
    IN  IF b <= a THEN <<>> ELSE SubSeq(s, a + 1, b)

\* s[:hi]
PyHead(s, hi) == PySlice(s, 0, hi)

\* s[lo:]
PyTail(s, lo) == PySlice(s, lo, Len(s))

\* sub occurs in s at 0-based offset i
StartsAt(s, sub, i) ==
    /\ i >= 0
    /\ i + Len(sub) <= Len(s)
    /\ \A k \in 1..Len(sub) : s[i + k] = sub[k]

\* the offsets >= i at which sub occurs in s
Occurrences(s, sub, i) ==
    {p \in Max(i, 0)..(Len(s) - Len(sub)) : s[p + 1] = sub[1] /\ StartsAt(s, sub, p)}

\* s.find(sub, i): the lowest offset >= i, or -1
FindFrom(s, sub, i) ==
    LET P == Occurrences(s, sub, i)
    IN  IF P = {} THEN -1 ELSE CHOOSE p \in P : \A q \in P : p <= q

\* s.find(sub): the lowest 0-based offset, or -1
Find(s, sub) == FindFrom(s, sub, 0)

\* sub in s
Contains(s, sub) == Occurrences(s, sub, 0) # {}

\* s.count(sub), the non-overlapping occurrences, for a sub that cannot
\* overlap itself (one code point, or two different ones): every pattern
\* the source counts or splits on is of that kind
Count(s, sub) == Cardinality(Occurrences(s, sub, 0))

\* s.split(sep), for a sep that cannot overlap itself
Split(s, sep) ==
    LET P == Occurrences(s, sep, 0)
        at(k) == CHOOSE p \in P : Cardinality({q \in P : q < p}) = k - 1
    IN  [k \in 1..(Cardinality(P) + 1) |->
            PySlice(s,
                    IF k = 1 THEN 0 ELSE at(k - 1) + Len(sep),
                    IF k = Cardinality(P) + 1 THEN Len(s) ELSE at(k))]

LowerAlpha ==
    <<"a", "b", "c", "d", "e", "f", "g", "h", "i", "j", "k", "l", "m",
      "n", "o", "p", "q", "r", "s", "t", "u", "v", "w", "x", "y", "z">>

UpperAlpha ==
    <<"A", "B", "C", "D", "E", "F", "G", "H", "I", "J", "K", "L", "M",
      "N", "O", "P", "Q", "R", "S", "T", "U", "V", "W", "X", "Y", "Z">>

Digits == {"0", "1", "2", "3", "4", "5", "6", "7", "8", "9"}

\* the characters the regex class \s matches, among those of the model
Whitespace == {" ", "\n", "\t"}

MapChar(c, from, to) ==
    IF \E k \in 1..Len(from) : from[k] = c
    THEN to[CHOOSE k \in 1..Len(from) : from[k] = c]
    ELSE c

\* s.lower()
Lower(s) == [k \in 1..Len(s) |-> MapChar(s[k], UpperAlpha, LowerAlpha)]

\* s.upper()
Upper(s) == [k \in 1..Len(s) |-> MapChar(s[k], LowerAlpha, UpperAlpha)]

\* length of the maximal run of characters of class cls in s from offset i
RunLen(s, cls, i) ==
    LET stop == {j \in i..(Len(s) - 1) : s[j + 1] \notin cls}
    IN  IF i >= Len(s) THEN 0
        ELSE IF stop = {} THEN Len(s) - i
        ELSE (CHOOSE j \in stop : \A k \in stop : j <= k) - i

(***************************************************************************)
(* Python dict primitives.                                                 *)
(***************************************************************************)
Has(d, key) == \E k \in 1..Len(d) : d[k][1] = key

\* d.get(key, default)
Get(d, key, default) ==
    IF Has(d, key) THEN d[CHOOSE k \in 1..Len(d) : d[k][1] = key][2]
    ELSE default

\* "d.get(a) or d.get(b)", of which the source only ever tests the truth
\* value or uses the non-empty string: None and "" both read as <<>>.
GetOr(d, a, b) ==
    IF Get(d, a, <<>>) # <<>> THEN Get(d, a, <<>>) ELSE Get(d, b, <<>>)

(***************************************************************************)
(* The glyphs and the fixed texts of the source.                           *)
(***************************************************************************)
Fire == <<"FIRE">>

Check == <<"CHECK">>

Warn == <<"WARN", "VS16">>

Pin == <<"PIN">>

Ellipsis == <<".", ".", ".">>


(***************************************************************************)
(* extract_useful_info                                                     *)
(***************************************************************************)
SseTag ==
    <<"[", "s", "s", "e", ".", "d", "a", "t", "a", "Q", "u", "e", "r", "y",
      "E", "r", "r", "o", "r", "]">>

\* re.sub(r'^\[sse\.dataQueryError\]\s*', '', s)
StripSseTag(s) ==
    IF StartsAt(s, SseTag, 0)
    THEN PyTail(s, Len(SseTag) + RunLen(s, Whitespace, Len(SseTag)))
    ELSE s

\* re.sub(r'^\[.*?\]\s*', '', s): the shortest bracketed tag at the start;
\* '.' matches no newline, so a newline before the first ']' stops the match
StripAnyTag(s) ==
    LET j == Find(s, <<"]">>)
    IN  IF /\ StartsAt(s, <<"[">>, 0)
           /\ j # -1
           /\ ~Contains(PySlice(s, 1, j), <<"\n">>)
        THEN PyTail(s, j + 1 + RunLen(s, Whitespace, j + 1))
        ELSE s

DialTcp == <<"d", "i", "a", "l", " ", "t", "c", "p", " ">>

\* r'dial tcp ([\d\.]+):(\d+):' matches at offset p; both classes exclude
\* ':', so each greedy run is the maximal one
DialMatchAt(s, p) ==
    LET h0 == p + Len(DialTcp)
        h  == RunLen(s, Digits \cup {"."}, h0)
        q0 == h0 + h + 1
        q  == RunLen(s, Digits, q0)
    IN  /\ StartsAt(s, DialTcp, p)
        /\ h >= 1
        /\ StartsAt(s, <<":">>, h0 + h)
        /\ q >= 1
        /\ StartsAt(s, <<":">>, q0 + q)

\* the groups of the leftmost match of re.search, as "host:port"
DialHostPort(s) ==
    LET p  == CHOOSE x \in 0..Len(s) :
                 /\ DialMatchAt(s, x)
                 /\ \A y \in 0..(x - 1) : ~DialMatchAt(s, y)
        h0 == p + Len(DialTcp)
        h  == RunLen(s, Digits \cup {"."}, h0)
        q0 == h0 + h + 1
        q  == RunLen(s, Digits, q0)
    IN  PySlice(s, h0, h0 + h) \o <<":">> \o PySlice(s, q0, q0 + q)

PostQuote == <<"P", "o", "s", "t", " ", "\"">>

\* r'Post "([^"]+)"' matches at offset p: a non-empty run up to a closing quote
PostMatchAt(s, p) ==
    LET e == FindFrom(s, <<"\"">>, p + Len(PostQuote))
    IN  /\ StartsAt(s, PostQuote, p)
        /\ e > p + Len(PostQuote)

PostUrl(s) ==
    LET p == CHOOSE x \in 0..Len(s) :
                 /\ PostMatchAt(s, x)
                 /\ \A y \in 0..(x - 1) : ~PostMatchAt(s, y)
    IN  PySlice(s, p + Len(PostQuote), FindFrom(s, <<"\"">>, p + Len(PostQuote)))

\* lines 64-68: a URL longer than 40 is reduced to its third '/'-segment
SimplifyUrl(url) ==
    IF Len(url) > 40 /\ Len(Split(url, <<"/">>)) >= 3
    THEN Split(url, <<"/">>)[3]
    ELSE url

extract_useful_info(error_message) ==
    IF error_message = <<>>
    THEN <<"A", "l", "e", "r", "t", " ", "t", "r", "i", "g", "g", "e", "r", "e", "d">>
    ELSE
    LET m == StripAnyTag(StripSseTag(error_message))
    IN  IF /\ Contains(Lower(m), <<"c", "o", "n", "n", "e", "c", "t", "i", "o", "n", " ",
                                    "r", "e", "f", "u", "s", "e", "d">>)
           /\ \E p \in 0..Len(m) : DialMatchAt(m, p)
        THEN <<"C", "o", "n", "n", "e", "c", "t", "i", "o", "n", " ", "r", "e", "f",
               "u", "s", "e", "d", " ", "t", "o", " ">> \o DialHostPort(m)
        ELSE IF /\ Contains(m, PostQuote)
                /\ \E p \in 0..Len(m) : PostMatchAt(m, p)
        THEN <<"F", "a", "i", "l", "e", "d", " ", "t", "o", " ", "c", "o", "n", "n",
               "e", "c", "t", " ", "t", "o", " ">> \o SimplifyUrl(PostUrl(m))
        ELSE IF Len(m) > 100
        THEN PyHead(m, 97) \o Ellipsis
        ELSE m

(***************************************************************************)
(* format_alert_message                                                    *)
(***************************************************************************)
K_alertname == <<"a", "l", "e", "r", "t", "n", "a", "m", "e">>

K_Error == <<"E", "r", "r", "o", "r">>

K_error == <<"e", "r", "r", "o", "r">>

K_summary == <<"s", "u", "m", "m", "a", "r", "y">>

K_description == <<"d", "e", "s", "c", "r", "i", "p", "t", "i", "o", "n">>

K_grafana_state_reason ==
    <<"g", "r", "a", "f", "a", "n", "a", "_", "s", "t", "a", "t", "e", "_",
      "r", "e", "a", "s", "o", "n">>

K_instance == <<"i", "n", "s", "t", "a", "n", "c", "e">>

K_endpoint == <<"e", "n", "d", "p", "o", "i", "n", "t">>

K_phone == <<"p", "h", "o", "n", "e">>

Firing == <<"f", "i", "r", "i", "n", "g">>

Resolved == <<"r", "e", "s", "o", "l", "v", "e", "d">>

\* lines 82-97: the annotation the message is built from
message_content(annotations) ==
    LET error_field   == GetOr(annotations, K_Error, K_error)
        summary_field == GetOr(annotations, K_summary, K_description)
        other == {k \in 1..Len(annotations) :
                     Lower(annotations[k][1]) \notin
                         {K_summary, K_description, K_grafana_state_reason}}
    IN  IF error_field # <<>> THEN extract_useful_info(error_field)
        ELSE IF summary_field # <<>> THEN summary_field
        ELSE IF other # {}
        THEN extract_useful_info(
                 annotations[CHOOSE k \in other : \A j \in other : k <= j][2])
        ELSE <<"A", "l", "e", "r", "t", " ", "c", "o", "n", "d", "i", "t", "i", "o",
               "n", " ", "m", "e", "t">>

\* lines 100-113: prefix, status text and alert name
status_line(status, alert_name) ==
    LET prefix == IF status = Firing THEN Fire \o <<" ">>
                  ELSE IF status = Resolved THEN Check \o <<" ">>
                  ELSE Warn \o <<" ">>
        status_text == IF status = Firing THEN <<"A", "L", "E", "R", "T">>
                       ELSE IF status = Resolved
                       THEN <<"R", "E", "S", "O", "L", "V", "E", "D">>
                       ELSE Upper(status)
    IN  prefix \o status_text \o <<":", " ">> \o alert_name

\* lines 126-131: a long instance is reduced to its host
simplify_instance(instance) ==
    IF Len(instance) > 30
    THEN LET a == IF Contains(instance, <<":", "/", "/">>)
                  THEN Split(instance, <<":", "/", "/">>)[2]
                  ELSE instance
         IN  IF Contains(a, <<"/">>) THEN Split(a, <<"/">>)[1] ELSE a
    ELSE instance

format_alert_message(alert) ==
    LET alert_name == Get(alert.labels, K_alertname,
                          <<"U", "n", "k", "n", "o", "w", "n", " ", "A", "l", "e", "r", "t">>)
        content  == message_content(alert.annotations)
        head     == status_line(alert.status, alert_name)
        body     == IF content # <<>> /\ Len(content) < 50
                    THEN head \o <<" ", "-", " ">> \o content
                    ELSE IF content # <<>> THEN head \o <<"\n">> \o content
                    ELSE head
        instance == GetOr(alert.labels, K_instance, K_endpoint)
    IN  IF instance # <<>>
        THEN body \o <<"\n">> \o Pin \o <<" ">> \o simplify_instance(instance)
        ELSE body

(***************************************************************************)
(* The length budgeting of handle_webhook, lines 170-184.                  *)
(***************************************************************************)
emoji_count(message) ==
    Count(message, Fire) + Count(message, Check) + Count(message, Warn)
        + Count(message, Pin)

adjusted_length(message) == Len(message) + emoji_count(message)

\* The budgeting with the split one character early: the prefix stops
\* before the space and the space is dropped from the rest.
BudgetSplitEarly(message) ==
    IF adjusted_length(message) > 140
    THEN IF Contains(message, Fire) \/ Contains(message, Check)
         THEN LET prefix_end == Find(message, <<" ">>)
                  prefix == PyHead(message, prefix_end)
                  rest   == PyTail(message, prefix_end + 1)
              IN  IF Len(rest) > 135 - Len(prefix)
                  THEN prefix \o PyHead(rest, 132 - Len(prefix)) \o Ellipsis
                  ELSE prefix \o rest
         ELSE PyHead(message, 137) \o Ellipsis
    ELSE message

Budget(message) ==
    IF adjusted_length(message) > 140
    THEN IF Contains(message, Fire) \/ Contains(message, Check)
         THEN LET prefix_end == Find(message, <<" ">>) + 1
                  prefix == PyHead(message, prefix_end)
                  rest   == PyTail(message, prefix_end)
              IN  IF Len(rest) > 135 - Len(prefix)
                  THEN prefix \o PyHead(rest, 132 - Len(prefix)) \o Ellipsis
                  ELSE prefix \o rest
         ELSE PyHead(message, 137) \o Ellipsis
    ELSE message

(***************************************************************************)
(* State.                                                                  *)
(*                                                                         *)
(* The configuration is read once at import (lines 16-23) and never        *)
(* written.  Every other handler variable is a local of one invocation of  *)
(* handle_webhook, so it is a function of the request.  calls and composed *)
(* record what the invocation did: the gateway GETs it issued, with the    *)
(* outcome of each, and the number of messages it composed.                *)
(*                                                                         *)
(* alert, message, once, twice and stage belong to the formatter           *)
(* specification, which composes one alert and budgets the result twice.   *)
(***************************************************************************)
VARIABLES WEBHOOK_SECRET, DEFAULT_RECIPIENT,
          token, body, pc, payload, idx, sms_sent, composed, calls, response,
          alert, message, once, twice, stage

config == <<WEBHOOK_SECRET, DEFAULT_RECIPIENT>>

handler == <<token, body, pc, payload, idx, sms_sent, composed, calls, response>>

formatter == <<alert, message, once, twice, stage>>

vars == <<config, handler, formatter>>

(***************************************************************************)
(* Bounds and inputs.                                                      *)
(***************************************************************************)
\* alerts in one payload
MaxAlerts == 3

\* webhook requests handled concurrently
NumRequests == 2

\* longest filler text of an annotation
MaxFill == 140

Pending == <<"p", "e", "n", "d", "i", "n", "g">>

Cpu == <<"c", "p", "u">>

PhoneA == <<"+", "2", "5", "1", "9", "1", "1">>

PhoneDefault == <<"+", "2", "5", "1", "9", "0", "0">>

Secret == <<"s", "3", "c", "r", "e", "t">>

Wrong == <<"w", "r", "o", "n", "g">>

RefusedError ==
    <<"[", "s", "s", "e", ".", "d", "a", "t", "a", "Q", "u", "e", "r", "y", "E", "r",
      "r", "o", "r", "]", " ", "d", "i", "a", "l", " ", "t", "c", "p", " ", "1", "0",
      ".", "0", ".", "0", ".", "5", ":", "5", "4", "3", "2", ":", " ", "c", "o", "n",
      "n", "e", "c", "t", ":", " ", "c", "o", "n", "n", "e", "c", "t", "i", "o", "n",
      " ", "r", "e", "f", "u", "s", "e", "d">>

PostError ==
    <<"P", "o", "s", "t", " ", "\"", "h", "t", "t", "p", "s", ":", "/", "/", "e", "x",
      "a", "m", "p", "l", "e", ".", "c", "o", "m", "/", "v", "e", "r", "y", "/", "l",
      "o", "n", "g", "/", "p", "a", "t", "h", "/", "t", "h", "a", "t", "/", "e", "x",
      "c", "e", "e", "d", "s", "/", "f", "o", "r", "t", "y", "/", "c", "h", "a", "r",
      "s", "\"", ":", " ", "E", "O", "F">>

LongInstance ==
    <<"h", "t", "t", "p", ":", "/", "/", "n", "o", "d", "e", "-", "e", "x", "p", "o",
      "r", "t", "e", "r", ".", "e", "x", "a", "m", "p", "l", "e", ".", "c", "o", "m",
      ":", "9", "1", "0", "0", "/", "m", "e", "t", "r", "i", "c", "s">>

ShortInstance == <<"w", "e", "b", "-", "1", ":", "9", "1", "0", "0">>

K_runbook == <<"r", "u", "n", "b", "o", "o", "k">>

\* n copies of one character
Fill(n) == [k \in 1..n |-> "a"]

\* The alerts of the handler specifications: every shape of the phone
\* label, the three kinds of status, a message long enough to be budgeted.
AlertPhone ==
    [status |-> Firing,
     labels |-> <<<<K_alertname, Cpu>>, <<K_phone, PhoneA>>>>,
     annotations |-> <<<<K_summary, Fill(3)>>>>]

AlertNoPhone ==
    [status |-> Resolved,
     labels |-> <<<<K_alertname, Cpu>>>>,
     annotations |-> <<<<K_Error, RefusedError>>>>]

AlertEmptyPhone ==
    [status |-> Pending,
     labels |-> <<<<K_phone, <<>> >>>>,
     annotations |-> << >>]

AlertLong ==
    [status |-> Firing,
     labels |-> <<<<K_alertname, Cpu>>, <<K_instance, ShortInstance>>>>,
     annotations |-> <<<<K_description, Fill(MaxFill)>>>>]

\* an alert object without "labels": it fails the Alert schema
AlertMalformed ==
    [status |-> Firing, annotations |-> << >>]

RawAlerts == {AlertPhone, AlertNoPhone, AlertEmptyPhone, AlertLong, AlertMalformed}

RECURSIVE SeqsUpTo(_, _)
SeqsUpTo(S, n) ==
    IF n = 0 THEN {<<>>}
    ELSE LET shorter == SeqsUpTo(S, n - 1)
         IN  shorter \cup {Append(q, x) : q \in {t \in shorter : Len(t) = n - 1}, x \in S}

\* A request body: not JSON at all, a JSON object without "alerts", or a
\* JSON object with a list of alert objects.
Bodies ==
    {[json |-> FALSE], [json |-> TRUE, status |-> Firing]}
        \cup {[json |-> TRUE, status |-> Firing, alerts |-> q] :
                 q \in SeqsUpTo(RawAlerts, MaxAlerts)}

Tokens == {<<>>, Secret, Wrong}

Secrets == {<<>>, Secret}

Recipients == {<<>>, PhoneDefault}

\* the requests of the concurrent specification carry one of two payloads
ConcBodies ==
    {[json |-> TRUE, status |-> Firing, alerts |-> <<AlertPhone, AlertNoPhone>>],
     [json |-> TRUE, status |-> Firing, alerts |-> <<AlertEmptyPhone, AlertPhone>>]}

ConcTokens == {<<>>}

Outcomes == {"2xx", "non2xx", "transport"}

NoResponse == [code |-> 0, sms_sent |-> 0]

NoAlert == [status |-> <<>>, labels |-> << >>, annotations |-> << >>]

(***************************************************************************)
(* handle_webhook                                                          *)
(***************************************************************************)
\* The token check that only rejects a missing token.
AuthorizedIfPresent(secret, tok) == ~(secret # <<>> /\ tok = <<>>)

\* line 140: the request passes the token check
Authorized(secret, tok) == ~(secret # <<>> /\ tok # secret)

\* Alert(**a) validates
ValidAlert(a) == {"status", "labels", "annotations"} \subseteq DOMAIN a

\* The validation that stops at the first alert of the list.
ValidPayloadFirstAlert(b) ==
    /\ b.json
    /\ {"status", "alerts"} \subseteq DOMAIN b
    /\ Len(b.alerts) >= 1 => ValidAlert(b.alerts[1])

\* lines 145-147: the body parses as JSON and GrafanaWebhookPayload(**json)
\* validates, which validates every alert of the list
ValidPayload(b) ==
    /\ b.json
    /\ {"status", "alerts"} \subseteq DOMAIN b
    /\ \A k \in 1..Len(b.alerts) : ValidAlert(b.alerts[k])

\* line 161
to_number(a, default) == Get(a.labels, K_phone, default)

\* The counter incremented before raise_for_status: every response counts.
sent_after_response(sent, r, outcome) ==
    IF outcome \in {"2xx", "non2xx"} THEN [sent EXCEPT ![r] = @ + 1] ELSE sent

\* The counter kept in one module-level variable: a 2xx counts for every
\* request in progress.
sent_after_shared(sent, r, outcome) ==
    IF outcome = "2xx" THEN [q \in DOMAIN sent |-> sent[q] + 1] ELSE sent

\* lines 198-206: the counter after the gateway call of request r ended
sent_after(sent, r, outcome) ==
    IF outcome = "2xx" THEN [sent EXCEPT ![r] = @ + 1] ELSE sent

\* The request arrives: its header and body are the handler's inputs.
Receive(r, B, T) ==
    /\ pc[r] = "idle"
    /\ \E t \in T, b \in B :
          /\ token' = [token EXCEPT ![r] = t]
          /\ body' = [body EXCEPT ![r] = b]
    /\ pc' = [pc EXCEPT ![r] = "auth"]
    /\ UNCHANGED <<config, payload, idx, sms_sent, composed, calls, response, formatter>>

\* lines 140-142, up to the await of request.json()
CheckToken(r) ==
    /\ pc[r] = "auth"
    /\ IF Authorized(WEBHOOK_SECRET, token[r])
       THEN /\ pc' = [pc EXCEPT ![r] = "parse"]
            /\ UNCHANGED response
       ELSE /\ pc' = [pc EXCEPT ![r] = "done"]
            /\ response' = [response EXCEPT ![r] = [code |-> 403, sms_sent |-> 0]]
    /\ UNCHANGED <<config, token, body, payload, idx, sms_sent, composed, calls, formatter>>

\* lines 144-155
ParseBody(r) ==
    /\ pc[r] = "parse"
    /\ IF ValidPayload(body[r])
       THEN /\ payload' = [payload EXCEPT ![r] = body[r].alerts]
            /\ sms_sent' = [sms_sent EXCEPT ![r] = 0]
            /\ idx' = [idx EXCEPT ![r] = 1]
            /\ pc' = [pc EXCEPT ![r] = "loop"]
            /\ UNCHANGED response
       ELSE /\ pc' = [pc EXCEPT ![r] = "done"]
            /\ response' = [response EXCEPT ![r] = [code |-> 400, sms_sent |-> 0]]
            /\ UNCHANGED <<payload, sms_sent, idx>>
    /\ UNCHANGED <<config, token, body, composed, calls, formatter>>

\* lines 156-198 for the next alert, up to the await of client.get, and
\* line 208 when no alert is left
LoopStep(r) ==
    /\ pc[r] = "loop"
    /\ IF idx[r] > Len(payload[r])
       THEN /\ response' = [response EXCEPT
                               ![r] = [code |-> 200, sms_sent |-> sms_sent[r]]]
            /\ pc' = [pc EXCEPT ![r] = "done"]
            /\ UNCHANGED <<idx, composed, calls>>
       ELSE LET a    == payload[r][idx[r]]
                text == format_alert_message(a)
                to   == to_number(a, DEFAULT_RECIPIENT)
            IN  /\ composed' = [composed EXCEPT ![r] = @ + 1]
                /\ IF to = <<>>
                   THEN /\ idx' = [idx EXCEPT ![r] = @ + 1]
                        /\ UNCHANGED <<pc, calls>>
                   ELSE /\ calls' = [calls EXCEPT ![r] = Append(@,
                                        [alert |-> idx[r], to |-> to,
                                         text |-> Budget(text),
                                         outcome |-> "pending"])]
                        /\ pc' = [pc EXCEPT ![r] = "await"]
                        /\ UNCHANGED idx
                /\ UNCHANGED response
    /\ UNCHANGED <<config, token, body, payload, sms_sent, formatter>>

\* lines 198-206: the awaited GET ends with a 2xx response, with another
\* status (raise_for_status raises HTTPStatusError) or with a RequestError
GatewayReply(r) ==
    /\ pc[r] = "await"
    /\ \E outcome \in Outcomes :
          /\ calls' = [calls EXCEPT ![r][Len(calls[r])].outcome = outcome]
          /\ sms_sent' = sent_after(sms_sent, r, outcome)
    /\ idx' = [idx EXCEPT ![r] = @ + 1]
    /\ pc' = [pc EXCEPT ![r] = "loop"]
    /\ UNCHANGED <<config, token, body, payload, composed, response, formatter>>

InitHandler(R, secrets, recipients) ==
    /\ WEBHOOK_SECRET \in secrets
    /\ DEFAULT_RECIPIENT \in recipients
    /\ token = [r \in R |-> <<>>]
    /\ body = [r \in R |-> [json |-> FALSE]]
    /\ pc = [r \in R |-> "idle"]
    /\ payload = [r \in R |-> <<>>]
    /\ idx = [r \in R |-> 0]
    /\ sms_sent = [r \in R |-> 0]
    /\ composed = [r \in R |-> 0]
    /\ calls = [r \in R |-> <<>>]
    /\ response = [r \in R |-> NoResponse]

FormatterIdle ==
    /\ alert = NoAlert
    /\ message = <<>>
    /\ once = <<>>
    /\ twice = <<>>
    /\ stage = "off"

\* one request at a time, every input
Init == InitHandler({1}, Secrets, Recipients) /\ FormatterIdle

Next ==
    \/ \E r \in DOMAIN pc : Receive(r, Bodies, Tokens)
    \/ \E r \in DOMAIN pc : CheckToken(r)
    \/ \E r \in DOMAIN pc : ParseBody(r)
    \/ \E r \in DOMAIN pc : LoopStep(r)
    \/ \E r \in DOMAIN pc : GatewayReply(r)

Spec == Init /\ [][Next]_vars

\* NumRequests requests, interleaved at every await
InitConc == InitHandler(1..NumRequests, Secrets, {PhoneDefault}) /\ FormatterIdle

NextConc ==
    \/ \E r \in DOMAIN pc : Receive(r, ConcBodies, ConcTokens)
    \/ \E r \in DOMAIN pc : CheckToken(r)
    \/ \E r \in DOMAIN pc : ParseBody(r)
    \/ \E r \in DOMAIN pc : LoopStep(r)
    \/ \E r \in DOMAIN pc : GatewayReply(r)

SpecConc == InitConc /\ [][NextConc]_vars

(***************************************************************************)
(* The formatter on its own: one alert is composed by                      *)
(* format_alert_message, the result is budgeted as handle_webhook does     *)
(* before the gateway call, and the budgeted text is budgeted once more.   *)
(***************************************************************************)
FireName == Fire \o <<" ", "d", "b">>

PinsName == Pin \o Pin \o Pin \o Pin \o Pin

LabelSets ==
    {n \o i : n \in {<< >>, <<<<K_alertname, Cpu>>>>, <<<<K_alertname, FireName>>>>,
                     <<<<K_alertname, PinsName>>>>},
              i \in {<< >>, <<<<K_instance, ShortInstance>>>>,
                     <<<<K_endpoint, LongInstance>>>>}}

AnnotationSets ==
    {<< >>, <<<<K_Error, RefusedError>>>>, <<<<K_error, PostError>>>>,
     <<<<K_grafana_state_reason, Fill(2)>>, <<K_runbook, Fill(3)>>>>}
        \cup {<<<<K_summary, Fill(n)>>>> : n \in 0..MaxFill}
        \cup {<<<<K_description, Fill(n) \o Fire>>>> : n \in 0..MaxFill}

BudgetAlerts ==
    [status : {Firing, Resolved, Pending}, labels : LabelSets,
     annotations : AnnotationSets]

InitBudget ==
    /\ InitHandler({}, {<<>>}, {<<>>})
    /\ alert \in BudgetAlerts
    /\ message = <<>>
    /\ once = <<>>
    /\ twice = <<>>
    /\ stage = "alert"

\* line 158
Compose ==
    /\ stage = "alert"
    /\ message' = format_alert_message(alert)
    /\ stage' = "composed"
    /\ UNCHANGED <<config, handler, alert, once, twice>>

\* lines 170-184 on the composed message: the text of the gateway call
BudgetOnce ==
    /\ stage = "composed"
    /\ once' = Budget(message)
    /\ stage' = "once"
    /\ UNCHANGED <<config, handler, alert, message, twice>>

\* lines 170-184 on their own result
BudgetAgain ==
    /\ stage = "once"
    /\ twice' = Budget(once)
    /\ stage' = "twice"
    /\ UNCHANGED <<config, handler, alert, message, once>>

NextBudget == Compose \/ BudgetOnce \/ BudgetAgain

SpecBudget == InitBudget /\ [][NextBudget]_vars

(***************************************************************************)
(* Properties.                                                             *)
(***************************************************************************)
Budgeted == stage \in {"once", "twice"}

FirePrefix == Fire \o <<" ">>

CheckPrefix == Check \o <<" ">>

\* C1: the text handed to the gateway has an adjusted length of at most 140.
C1_AdjustedLengthAtMost140 ==
    Budgeted => adjusted_length(once) <= 140

\* C2: budgeting is idempotent: budgeting the budgeted text changes nothing.
C2_BudgetIdempotent ==
    stage = "twice" => twice = once

\* the status prefix the composer gives a firing or resolved alert
StatusPrefix(status) ==
    IF status = Firing THEN Fire \o <<" ", "A", "L", "E", "R", "T", ":">>
    ELSE Check \o <<" ", "R", "E", "S", "O", "L", "V", "E", "D", ":">>

\* text is the message, or the message cut somewhere after its first n
\* characters and followed by the ellipsis
CutAfter(text, msg, n) ==
    \/ text = msg
    \/ \E k \in n..Len(msg) : text = PyHead(msg, k) \o Ellipsis

\* C3: a firing (resolved) message that is too long still begins with the
\* whole "<fire> ALERT:" ("<check> RESOLVED:") prefix after budgeting, and
\* only characters after that prefix are removed.
C3_StatusPrefixKept ==
    (/\ Budgeted
     /\ alert.status \in {Firing, Resolved}
     /\ adjusted_length(message) > 140)
        => /\ StartsAt(once, StatusPrefix(alert.status), 0)
           /\ CutAfter(once, message, Len(StatusPrefix(alert.status)))

C3_Witness ==
    /\ stage = "once"
    /\ alert.status = Firing
    /\ adjusted_length(message) > 140
    /\ once # message
    /\ Len(once) < Len(message)

\* the budgeting the claims describe: the branch is chosen by how the
\* message starts
StartsWithStatusGlyph(msg) ==
    StartsAt(msg, FirePrefix, 0) \/ StartsAt(msg, CheckPrefix, 0)

PrefixRule(msg) ==
    LET prefix_end == Find(msg, <<" ">>) + 1
        prefix == PyHead(msg, prefix_end)
        rest   == PyTail(msg, prefix_end)
    IN  IF Len(rest) > 135 - Len(prefix)
        THEN prefix \o PyHead(rest, 132 - Len(prefix)) \o Ellipsis
        ELSE prefix \o rest

\* C9: of the messages that are too long, exactly those that start with the
\* firing or resolved glyph prefix are split at the first space and cut by
\* the 135/132 rule; every other one is cut to 137 characters and the
\* ellipsis, whatever glyphs its alert name or content holds.
C9_BranchChosenByPrefix ==
    (Budgeted /\ adjusted_length(message) > 140)
        => once = IF StartsWithStatusGlyph(message)
                  THEN PrefixRule(message)
                  ELSE PyHead(message, 137) \o Ellipsis

\* the destination the claims describe: the phone label when it is present
\* and not empty, and the default recipient otherwise
ClaimedDestination(a, default) ==
    IF Has(a.labels, K_phone) /\ Get(a.labels, K_phone, <<>>) # <<>>
    THEN Get(a.labels, K_phone, <<>>)
    ELSE default

Completed(r) == pc[r] = "done" /\ response[r].code = 200

CallsFor(r, k) == {c \in 1..Len(calls[r]) : calls[r][c].alert = k}

\* C4: every alert goes to its non-empty phone label, or else to the
\* default recipient, and is skipped only when both are missing or empty.
C4_DestinationResolved ==
    \A r \in DOMAIN pc :
        Completed(r) =>
            \A k \in 1..Len(payload[r]) :
                LET d == ClaimedDestination(payload[r][k], DEFAULT_RECIPIENT)
                IN  IF d = <<>>
                    THEN CallsFor(r, k) = {}
                    ELSE \E c \in CallsFor(r, k) : calls[r][c].to = d

\* C5: the gateway calls of a request are its alerts that have a
\* destination, in payload order, one call each, whatever the outcomes.
C5_CallsInPayloadOrderOnce ==
    \A r \in DOMAIN pc :
        Completed(r) =>
            LET HasDestination(k) ==
                    ClaimedDestination(payload[r][k], DEFAULT_RECIPIENT) # <<>>
            IN  [c \in 1..Len(calls[r]) |-> calls[r][c].alert]
                    = SelectSeq([k \in 1..Len(payload[r]) |-> k], HasDestination)

\* the request is authorized and its body is well formed, as the claims
\* put it
TokenMismatch(r) == WEBHOOK_SECRET # <<>> /\ token[r] # WEBHOOK_SECRET

Malformed(b) ==
    \/ ~b.json
    \/ "alerts" \notin DOMAIN b
    \/ \E k \in 1..Len(b.alerts) : "labels" \notin DOMAIN b.alerts[k]

Successes(r) == {c \in 1..Len(calls[r]) : calls[r][c].outcome = "2xx"}

\* C6: an authorized, well-formed request is never answered with an error,
\* and it completes with a 200 whose sms_sent is the number of gateway
\* calls that returned 2xx: skipped alerts, non-2xx responses and transport
\* errors are not counted.
C6_SuccessCountsOnly2xx ==
    \A r \in DOMAIN pc :
        (pc[r] # "idle" /\ ~TokenMismatch(r) /\ ~Malformed(body[r]))
            => /\ response[r].code \in {0, 200}
               /\ idx[r] <= Len(payload[r]) + 1
               /\ pc[r] = "done"
                     => /\ response[r].code = 200
                        /\ idx[r] = Len(payload[r]) + 1
                        /\ response[r].sms_sent = Cardinality(Successes(r))

C6_Witness ==
    /\ Completed(1)
    /\ Len(payload[1]) = 3
    /\ Len(calls[1]) = 2
    /\ calls[1][1].outcome = "non2xx"
    /\ calls[1][2].outcome = "2xx"
    /\ response[1].sms_sent = 1

\* C7: with a secret configured, a request whose token is missing or wrong
\* is answered 403 before its body is parsed: no alert is read, no message
\* composed, no gateway call made.  Without a secret the token check
\* rejects nothing.
C7_RejectedBeforeParsing ==
    \A r \in DOMAIN pc :
        /\ (pc[r] # "idle" /\ TokenMismatch(r))
              => /\ pc[r] \in {"auth", "done"}
                 /\ idx[r] = 0
                 /\ payload[r] = <<>>
                 /\ composed[r] = 0
                 /\ calls[r] = <<>>
                 /\ pc[r] = "done" => response[r].code = 403
        /\ WEBHOOK_SECRET = <<>> => response[r].code # 403

C7_Witness ==
    /\ WEBHOOK_SECRET = Secret
    /\ token[1] = Wrong
    /\ ~Malformed(body[1])
    /\ Len(body[1].alerts) = 2
    /\ pc[1] = "done"
    /\ response[1].code = 403

\* C8: a body that is not JSON or does not match the schema, even in one
\* alert of several, is answered 400 with no gateway call and no message
\* composed: nothing of the payload is processed.
C8_MalformedRejectedWhole ==
    \A r \in DOMAIN pc :
        (pc[r] # "idle" /\ Malformed(body[r]))
            => /\ calls[r] = <<>>
               /\ composed[r] = 0
               /\ (pc[r] = "done" /\ ~TokenMismatch(r)) => response[r].code = 400

C8_Witness ==
    /\ pc[1] = "done"
    /\ response[1].code = 400
    /\ body[1].json
    /\ "alerts" \in DOMAIN body[1]
    /\ Len(body[1].alerts) = 2
    /\ body[1].alerts[1] = AlertPhone
    /\ body[1].alerts[2] = AlertMalformed

\* the gateway calls a payload leads to, from that payload and the
\* configuration alone
RECURSIVE CallsOfFrom(_, _, _)
CallsOfFrom(alerts, default, k) ==
    IF k > Len(alerts) THEN <<>>
    ELSE LET to == Get(alerts[k].labels, K_phone, default)
         IN  (IF to = <<>> THEN <<>>
              ELSE <<[alert |-> k, to |-> to,
                      text |-> Budget(format_alert_message(alerts[k]))]>>)
                 \o CallsOfFrom(alerts, default, k + 1)

CallsMade(r) ==
    [c \in 1..Len(calls[r]) |->
        [alert |-> calls[r][c].alert, to |-> calls[r][c].to,
         text |-> calls[r][c].text]]

\* C10: however concurrent requests interleave, the calls of a request are
\* those of its own payload and its count is the number of its own calls
\* that returned 2xx.
C10_RequestsIndependent ==
    \A r \in DOMAIN pc :
        /\ sms_sent[r] = Cardinality(Successes(r))
        /\ pc[r] \in {"loop", "await", "done"} /\ response[r].code \in {0, 200}
              => LET own == CallsOfFrom(payload[r], DEFAULT_RECIPIENT, 1)
                 IN  /\ Len(calls[r]) <= Len(own)
                     /\ CallsMade(r) = SubSeq(own, 1, Len(calls[r]))
                     /\ Completed(r)
                           => /\ Len(calls[r]) = Len(own)
                              /\ response[r].sms_sent = Cardinality(Successes(r))

C10_Witness ==
    /\ pc[1] = "await"
    /\ Len(calls[1]) = 2
    /\ sms_sent[1] = 1
    /\ pc[2] = "await"
    /\ calls[2][1].alert = 2
    /\ sms_sent[2] = 0
    /\ Completed(1) = FALSE

=============================================================================
